---- MODULE Spec2Model ----
(***************************************************************************)
(* Model of the StreamShare client (src/src/lib.rs): the chunked upload    *)
(* loop over a WebSocket, the delete call, and the download with its path  *)
(* resolution against the local filesystem.                                *)
(*                                                                         *)
(* One invocation of one operation is modelled per behaviour.  Every       *)
(* `.await` of the source is a step; the code between two awaits is part   *)
(* of the step that follows the first one.  The server, the network and    *)
(* the operating system are the environment: their answers are drawn       *)
(* with \E inside the step that awaits them.                               *)
(*                                                                         *)
(* Paths are sequences of components; an absolute path starts with the     *)
(* component "/".  The filesystem maps canonical locations (component      *)
(* sequences from the root) to a kind and a content.  Symbolic links are   *)
(* not modelled.  The error values of the source are strings; each is      *)
(* named after the place that produces it.                                 *)
(***************************************************************************)
EXTENDS Integers, Sequences, FiniteSets, TLC

\* Bounds of the model.
MaxFileSize == 4
MaxChunkSize == 3

----------------------------------------------------------------------------
\* Generic helpers.

Min(a, b) == IF a < b THEN a ELSE b

Last(s) == s[Len(s)]

Front(s) == SubSeq(s, 1, Len(s) - 1)

RECURSIVE SumLen(_)
SumLen(ss) == IF ss = <<>> THEN 0 ELSE Len(Head(ss)) + SumLen(Tail(ss))

CeilDiv(a, b) == (a + b - 1) \div b

----------------------------------------------------------------------------
\* std::path as used by the source.

\* Path::as_os_str().is_empty()
PathIsEmpty(p) == p = <<>>

IsAbsolute(p) == p # <<>> /\ p[1] = "/"

\* Path::parent() is None for the empty path and for a path that ends in the
\* root; otherwise it is the path without its final component, which may be
\* the empty path.
HasParent(p) == p # <<>> /\ p # <<"/">>

Parent(p) == Front(p)

\* Path::join: an absolute argument replaces the base.
PathJoin(base, p) == IF IsAbsolute(p) THEN p ELSE base \o p

\* shellexpand::tilde: a leading "~" component becomes the home directory.
HomeDir == <<"/", "h">>

Tilde(p) == IF p # <<>> /\ p[1] = "~" THEN HomeDir \o Tail(p) ELSE p

----------------------------------------------------------------------------
\* The operating system's view of the filesystem.

Cwd == <<"w">>

NoEnt == <<"<enoent>">>

\* Path lookup: every component but the last must be an existing directory;
\* ".." steps to the parent.  The result is the canonical location the path
\* names (which may not exist), or NoEnt when the walk fails.
RECURSIVE Walk(_, _, _)
Walk(f, cur, rest) ==
    IF rest = <<>> THEN cur
    ELSE IF cur \notin DOMAIN f \/ f[cur].kind # "dir" THEN NoEnt
    ELSE IF Head(rest) = ".."
         THEN Walk(f, IF cur = <<>> THEN <<>> ELSE Front(cur), Tail(rest))
         ELSE Walk(f, Append(cur, Head(rest)), Tail(rest))

Locate(f, p) ==
    IF p = <<>> THEN NoEnt
    ELSE IF IsAbsolute(p) THEN Walk(f, <<>>, Tail(p))
    ELSE Walk(f, Cwd, p)

\* Path::exists, Path::is_dir, Path::is_file
Exists(f, p) == Locate(f, p) \in DOMAIN f

IsDir(f, p) == Exists(f, p) /\ f[Locate(f, p)].kind = "dir"

IsFile(f, p) == Exists(f, p) /\ f[Locate(f, p)].kind = "file"

Put(f, loc, entry) ==
    [q \in DOMAIN f \cup {loc} |-> IF q = loc THEN entry ELSE f[q]]

DirEntry == [kind |-> "dir", data |-> <<>>]

\* One mkdir(2): the updated filesystem, or a failure.
Mkdir(f, p) ==
    LET loc == Locate(f, p) IN
    IF loc = NoEnt THEN [ok |-> FALSE, notFound |-> TRUE, fs |-> f]
    ELSE IF loc \in DOMAIN f THEN [ok |-> FALSE, notFound |-> FALSE, fs |-> f]
    ELSE [ok |-> TRUE, notFound |-> FALSE, fs |-> Put(f, loc, DirEntry)]

\* std::fs::create_dir_all: the empty path is a success without effect; a
\* mkdir that fails because the path is already a directory is a success;
\* a mkdir that fails with NotFound creates the parent first and retries.
RECURSIVE CreateDirAll(_, _)
CreateDirAll(f, p) ==
    IF p = <<>> THEN [ok |-> TRUE, fs |-> f]
    ELSE LET m == Mkdir(f, p) IN
         IF m.ok THEN [ok |-> TRUE, fs |-> m.fs]
         ELSE IF ~m.notFound THEN [ok |-> IsDir(f, p), fs |-> f]
         ELSE IF ~HasParent(p) THEN [ok |-> FALSE, fs |-> f]
         ELSE LET r == CreateDirAll(f, Parent(p)) IN
              IF ~r.ok THEN [ok |-> FALSE, fs |-> r.fs]
              ELSE LET m2 == Mkdir(r.fs, p) IN
                   IF m2.ok THEN [ok |-> TRUE, fs |-> m2.fs]
                   ELSE [ok |-> IsDir(r.fs, p), fs |-> r.fs]

\* File::create: create or truncate.  A directory cannot be opened for
\* writing; a special file is opened and left as it is.
FileCreate(f, p) ==
    LET loc == Locate(f, p) IN
    IF loc = NoEnt THEN [ok |-> FALSE, fs |-> f, loc |-> NoEnt]
    ELSE IF loc \notin DOMAIN f
         THEN [ok |-> TRUE, fs |-> Put(f, loc, [kind |-> "file", data |-> <<>>]),
               loc |-> loc]
    ELSE IF f[loc].kind = "dir" THEN [ok |-> FALSE, fs |-> f, loc |-> NoEnt]
    ELSE IF f[loc].kind = "file"
         THEN [ok |-> TRUE, fs |-> Put(f, loc, [kind |-> "file", data |-> <<>>]),
               loc |-> loc]
    ELSE [ok |-> TRUE, fs |-> f, loc |-> loc]

\* write_all on the handle File::create returned (position 0, empty file).
WriteAll(f, loc, bytes) ==
    IF f[loc].kind = "file"
    THEN Put(f, loc, [kind |-> "file", data |-> f[loc].data \o bytes])
    ELSE f

----------------------------------------------------------------------------
\* The filesystems an invocation can start from.

FsOf(E) ==
    [p \in {e.path : e \in E} |->
        LET e == CHOOSE x \in E : x.path = p
        IN  [kind |-> e.kind, data |-> e.data]]

Bytes(n) == [i \in 1..n |-> i]

OldData == <<9>>

BaseEntries ==
    { [path |-> <<>>, kind |-> "dir", data |-> <<>>],
      [path |-> <<"w">>, kind |-> "dir", data |-> <<>>],
      [path |-> <<"h">>, kind |-> "dir", data |-> <<>>] }

DEntries(dKind, dSub) ==
    IF dKind = "none" THEN {}
    ELSE { [path |-> <<"w", "d">>, kind |-> dKind,
            data |-> IF dKind = "file" THEN OldData ELSE <<>>] }
         \cup (IF dKind = "dir" /\ dSub
               THEN { [path |-> <<"w", "d", "s.txt">>, kind |-> "file",
                       data |-> OldData] }
               ELSE {})

SEntries(s) ==
    IF s THEN { [path |-> <<"w", "s.txt">>, kind |-> "file", data |-> OldData] }
    ELSE {}

UEntries(uSize) ==
    IF uSize < 0 THEN {}
    ELSE { [path |-> <<"w", "u.bin">>, kind |-> "file", data |-> Bytes(uSize)] }

InitialFilesystems ==
    { FsOf(BaseEntries \cup DEntries(dKind, dSub) \cup SEntries(s)
           \cup UEntries(uSize)) :
        dKind \in {"none", "dir", "file", "special"}, dSub \in BOOLEAN,
        s \in BOOLEAN, uSize \in (-1)..MaxFileSize }

----------------------------------------------------------------------------
\* The server's answers.

CreateBodies ==
    { [fileIdentifier |-> "id1", deletionToken |-> "tok1"],
      [fileIdentifier |-> "id1"],
      [deletionToken |-> "tok1"] }

\* Variant of ParsesAsCreateResponse: the deletion token is optional.
ParsesAsCreateResponse_IdOnly(body) == "fileIdentifier" \in DOMAIN body

\* serde: CreateResponse needs both fields.
ParsesAsCreateResponse(body) ==
    {"fileIdentifier", "deletionToken"} \subseteq DOMAIN body

HttpStatuses == {200, 404, 500}

\* Variant of IsSuccess: the status is not looked at.
IsSuccess_Always(status) == TRUE

\* StatusCode::is_success
IsSuccess(status) == status >= 200 /\ status < 300

WsMessages ==
    { [type |-> "Text", payload |-> "ACK"],
      [type |-> "Text", payload |-> "ack"],
      [type |-> "Text", payload |-> "NAK"],
      [type |-> "Binary", payload |-> "ACK"],
      [type |-> "Ping", payload |-> ""],
      [type |-> "Pong", payload |-> ""],
      [type |-> "Close", payload |-> ""] }

\* What ws_stream.next() can yield.
NextOutcomes ==
    { [tag |-> "SomeOk", msg |-> m] : m \in WsMessages }
    \cup { [tag |-> "SomeErr"], [tag |-> "None"] }

\* Variant of IsAck: any text frame is taken for the acknowledgement.
IsAck_AnyText(o) == o.tag = "SomeOk" /\ o.msg.type = "Text"

\* Some(Ok(Message::Text(text))) if text == "ACK"
IsAck(o) == o.tag = "SomeOk" /\ o.msg.type = "Text" /\ o.msg.payload = "ACK"

\* Variant of RecvError: the payload is compared, the frame type is not.
RecvError_PayloadOnly(o) ==
    IF o.tag = "SomeOk" /\ o.msg.payload = "ACK" THEN ""
    ELSE IF o.tag = "SomeOk" THEN "UnexpectedMessage"
    ELSE IF o.tag = "SomeErr" THEN "TransportError"
    ELSE "PrematureClose"

\* The match on the response frame: "" continues the loop.
RecvError(o) ==
    IF IsAck(o) THEN ""
    ELSE IF o.tag = "SomeOk" THEN "UnexpectedMessage"
    ELSE IF o.tag = "SomeErr" THEN "TransportError"
    ELSE "PrematureClose"

\* file.read(&mut buffer): the number of bytes one read can return, for a
\* buffer of `cap` bytes and `remaining` bytes before end-of-file.  0 only at
\* end-of-file or for an empty buffer; a read may return fewer bytes than the
\* buffer holds.
ReadSizes(cap, remaining) ==
    IF Min(cap, remaining) = 0 THEN {0} ELSE 1..Min(cap, remaining)

----------------------------------------------------------------------------
VARIABLES
    pc,              \* position of the invocation
    op,              \* "none", "upload", "delete" or "download"
    result,          \* "pending", "Ok" or the error returned
    chunk_size,      \* StreamShare.chunk_size
    fs,              \* the filesystem
    fs0,             \* the filesystem at the start
    upload_path,     \* upload: file_path
    file_size,       \* upload: metadata.len()
    file_pos,        \* upload: read position of `file`
    chunk,           \* upload: &buffer[..n]
    uploaded,        \* upload: uploaded
    frames,          \* binary frames sent on the WebSocket
    responses,       \* what ws_stream.next() returned, in order
    progress,        \* invocations of callback
    create_response, \* upload: create_response
    returned,        \* upload: the pair in Ok(..)
    calls,           \* network requests issued: create, connect, close, delete, get
    answers,         \* what the server and the file reads answered, in order
    download_path,   \* download: download_path
    replace,         \* download: replace
    file_name,       \* download: file_name
    file_path,       \* download: file_path
    handle,          \* download: location `file` is open on
    file_identifier, \* download: file_identifier
    content,         \* download: content
    fsOps            \* filesystem modifications made by the invocation

uploadVars ==
    <<upload_path, file_size, file_pos, chunk, uploaded, frames, responses,
      progress, create_response, returned>>

downloadVars ==
    <<download_path, replace, file_name, file_path, handle, file_identifier,
      content, fsOps>>

vars ==
    <<pc, op, result, chunk_size, fs, fs0, uploadVars, calls, answers,
      downloadVars>>

NoSession == [none |-> TRUE]

NoCalls == [create |-> 0, connect |-> 0, close |-> 0, delete |-> 0, get |-> 0]

Called(what) == [calls EXCEPT ![what] = @ + 1]

Answered(kind, value) == Append(answers, [kind |-> kind, value |-> value])

\* StreamShare::new(server_url, chunk_size), on some filesystem.
Init ==
    /\ pc = "idle"
    /\ op = "none"
    /\ result = "pending"
    /\ chunk_size \in 0..MaxChunkSize
    /\ fs \in InitialFilesystems
    /\ fs0 = fs
    /\ upload_path = <<>>
    /\ file_size = 0
    /\ file_pos = 0
    /\ chunk = <<>>
    /\ uploaded = 0
    /\ frames = <<>>
    /\ responses = <<>>
    /\ progress = <<>>
    /\ create_response = NoSession
    /\ returned = NoSession
    /\ calls = NoCalls
    /\ answers = <<>>
    /\ download_path = <<>>
    /\ replace = FALSE
    /\ file_name = <<>>
    /\ file_path = <<>>
    /\ handle = NoEnt
    /\ file_identifier = ""
    /\ content = <<>>
    /\ fsOps = <<>>

\* Variant of Fail: the error is noted and the step is tried again.
Fail_Retry(e) ==
    /\ pc' = pc
    /\ result' = e

\* return Err(e)
Fail(e) ==
    /\ pc' = "error"
    /\ result' = e

----------------------------------------------------------------------------
\* StreamShare::upload

UploadPaths == { <<"u.bin">>, <<"d">>, <<"missing">> }

CallUpload(p) ==
    /\ pc = "idle"
    /\ op' = "upload"
    /\ upload_path' = p
    /\ pc' = "u_metadata"
    /\ UNCHANGED <<result, chunk_size, fs, fs0, file_size, file_pos, chunk,
                   uploaded, frames, responses, progress, create_response,
                   returned, calls, answers, downloadVars>>

\* Variant of MetadataIsFile: anything that exists is accepted.
MetadataIsFile_AnyKind(f, p) == TRUE

\* metadata.is_file()
MetadataIsFile(f, p) == f[Locate(f, p)].kind = "file"

\* fs::metadata(path).await?, the is_file check, file_size.
UploadMetadata ==
    /\ pc = "u_metadata"
    /\ IF ~Exists(fs, upload_path)
       THEN Fail("IoFailure") /\ UNCHANGED file_size
       ELSE IF ~MetadataIsFile(fs, upload_path)
       THEN Fail("NotAFile") /\ UNCHANGED file_size
       ELSE /\ file_size' = Len(fs[Locate(fs, upload_path)].data)
            /\ pc' = "u_create"
            /\ UNCHANGED result
    /\ UNCHANGED <<op, chunk_size, fs, fs0, upload_path, file_pos, chunk,
                   uploaded, frames, responses, progress, create_response,
                   returned, calls, answers, downloadVars>>

\* POST /api/create and the status check.
UploadCreate ==
    /\ pc = "u_create"
    /\ calls' = Called("create")
    /\ \/ Fail("HttpError") /\ UNCHANGED answers
       \/ \E status \in HttpStatuses :
            /\ answers' = Answered("create", status)
            /\ IF ~IsSuccess(status)
               THEN Fail("CreateFailed")
               ELSE pc' = "u_json" /\ UNCHANGED result
    /\ UNCHANGED <<op, chunk_size, fs, fs0, uploadVars, downloadVars>>

\* res.json().await?
UploadJson ==
    /\ pc = "u_json"
    /\ \E body \in CreateBodies :
         /\ answers' = Answered("json", body)
         /\ IF ParsesAsCreateResponse(body)
            THEN /\ create_response' = body
                 /\ pc' = "u_connect"
                 /\ UNCHANGED result
            ELSE Fail("InvalidServerResponse") /\ UNCHANGED create_response
    /\ UNCHANGED <<op, chunk_size, fs, fs0, upload_path, file_size, file_pos,
                   chunk, uploaded, frames, responses, progress, returned,
                   calls, downloadVars>>

\* connect_async(ws_url).await?
UploadConnect ==
    /\ pc = "u_connect"
    /\ calls' = Called("connect")
    /\ \/ Fail("ConnectFailed")
       \/ pc' = "u_open" /\ UNCHANGED result
    /\ UNCHANGED <<op, chunk_size, fs, fs0, uploadVars, answers, downloadVars>>

\* File::open(path).await?, the buffer and the counter.
UploadOpen ==
    /\ pc = "u_open"
    /\ \/ Fail("IoFailure") /\ UNCHANGED <<file_pos, uploaded>>
       \/ /\ file_pos' = 0
          /\ uploaded' = 0
          /\ pc' = "u_read"
          /\ UNCHANGED result
    /\ UNCHANGED <<op, chunk_size, fs, fs0, upload_path, file_size, chunk,
                   frames, responses, progress, create_response, returned,
                   calls, answers, downloadVars>>

\* Variant of AfterRead: the loop is not left on an empty read.
AfterRead_NoBreak(n) == "u_send"

\* if n == 0 { break; }
AfterRead(n) == IF n = 0 THEN "u_close" ELSE "u_send"

\* let n = file.read(&mut buffer).await?; if n == 0 { break; }
UploadRead ==
    /\ pc = "u_read"
    /\ LET data == fs[Locate(fs, upload_path)].data IN
       \/ Fail("IoFailure") /\ UNCHANGED <<file_pos, chunk, answers>>
       \/ \E n \in ReadSizes(chunk_size, Len(data) - file_pos) :
            /\ answers' = Answered("read", n)
            /\ chunk' = SubSeq(data, file_pos + 1, file_pos + n)
            /\ file_pos' = file_pos + n
            /\ pc' = AfterRead(n)
            /\ UNCHANGED result
    /\ UNCHANGED <<op, chunk_size, fs, fs0, upload_path, file_size, uploaded,
                   frames, responses, progress, create_response, returned,
                   calls, downloadVars>>

\* ws_stream.send(Message::Binary(..)).await?; uploaded += n; callback(..)
UploadSend ==
    /\ pc = "u_send"
    /\ \/ Fail("TransportError") /\ UNCHANGED <<frames, uploaded, progress>>
       \/ /\ frames' = Append(frames, chunk)
          /\ uploaded' = uploaded + Len(chunk)
          /\ progress' = Append(progress,
                                [bytesSent |-> uploaded + Len(chunk),
                                 totalBytes |-> file_size])
          /\ pc' = "u_recv"
          /\ UNCHANGED result
    /\ UNCHANGED <<op, chunk_size, fs, fs0, upload_path, file_size, file_pos,
                   chunk, responses, create_response, returned, calls, answers,
                   downloadVars>>

\* match ws_stream.next().await
UploadRecv ==
    /\ pc = "u_recv"
    /\ \E o \in NextOutcomes :
         /\ responses' = Append(responses, o)
         /\ IF RecvError(o) = ""
            THEN pc' = "u_read" /\ UNCHANGED result
            ELSE Fail(RecvError(o))
    /\ UNCHANGED <<op, chunk_size, fs, fs0, upload_path, file_size, file_pos,
                   chunk, uploaded, frames, progress, create_response,
                   returned, calls, answers, downloadVars>>

\* ws_stream.close(FILE_UPLOAD_DONE).await?; Ok((file_identifier, deletion_token))
UploadClose ==
    /\ pc = "u_close"
    /\ \/ Fail("TransportError") /\ UNCHANGED <<calls, returned>>
       \/ /\ calls' = Called("close")
          /\ returned' = create_response
          /\ result' = "Ok"
          /\ pc' = "done"
    /\ UNCHANGED <<op, chunk_size, fs, fs0, upload_path, file_size, file_pos,
                   chunk, uploaded, frames, responses, progress,
                   create_response, answers, downloadVars>>

----------------------------------------------------------------------------
\* StreamShare::delete

CallDelete ==
    /\ pc = "idle"
    /\ op' = "delete"
    /\ pc' = "x_send"
    /\ UNCHANGED <<result, chunk_size, fs, fs0, uploadVars, calls, answers,
                   downloadVars>>

\* DELETE /api/delete/{id}/{token} and the status check.
DeleteSend ==
    /\ pc = "x_send"
    /\ calls' = Called("delete")
    /\ \/ Fail("HttpError") /\ UNCHANGED answers
       \/ \E status \in HttpStatuses :
            /\ answers' = Answered("delete", status)
            /\ IF IsSuccess(status)
               THEN pc' = "done" /\ result' = "Ok"
               ELSE Fail("DeleteFailed")
    /\ UNCHANGED <<op, chunk_size, fs, fs0, uploadVars, downloadVars>>

----------------------------------------------------------------------------
\* StreamShare::download

\* A content-disposition value is a sequence of ';'-separated parts; a part
\* is a sequence of tokens: " " (white space), "filename=", "\"" and the
\* components of a path.
RECURSIVE TrimStartMatches(_, _)
TrimStartMatches(s, tok) ==
    IF s # <<>> /\ Head(s) = tok THEN TrimStartMatches(Tail(s), tok) ELSE s

RECURSIVE TrimEndMatches(_, _)
TrimEndMatches(s, tok) ==
    IF s # <<>> /\ Last(s) = tok THEN TrimEndMatches(Front(s), tok) ELSE s

\* str::trim_matches and str::trim
TrimMatches(s, tok) == TrimEndMatches(TrimStartMatches(s, tok), tok)

Trim(s) == TrimMatches(s, " ")

StartsWith(s, tok) == s # <<>> /\ Head(s) = tok

\* trimmed.trim_start_matches("filename=").trim_matches('"')
FilenameValue(trimmed) ==
    TrimMatches(TrimStartMatches(trimmed, "filename="), "\"")

\* format!("{}.unknown", file_identifier), for the identifiers of the model.
Unknown(id) == IF id = "id1" THEN "id1.unknown" ELSE ".unknown"

NoHeader == [present |-> FALSE, parts |-> <<>>]

\* The header lookup: the first part that starts with "filename=", else the
\* fallback.  The name is kept as the path it denotes; the fallback is a
\* single component.
FileName(header, id) ==
    LET hits == { i \in 1..Len(header.parts) :
                    StartsWith(Trim(header.parts[i]), "filename=") }
    IN  IF ~header.present \/ hits = {}
        THEN << Unknown(id) >>
        ELSE LET first == CHOOSE i \in hits : \A j \in hits : i <= j
             IN  FilenameValue(Trim(header.parts[first]))

HeaderParts ==
    { << <<"attachment">> >>,
      << <<"attachment">>, <<" ", "filename=", "\"", "s.txt", "\"">> >>,
      << <<"filename=", "sub", "s.txt">> >>,
      << <<"filename=", "/", "w", "out.bin">> >>,
      << <<"filename=", "..", "s.txt">> >>,
      << <<"filename=", "\"", "\"">> >> }

Headers == { NoHeader } \cup { [present |-> TRUE, parts |-> ps] : ps \in HeaderParts }

Bodies == { <<>>, <<1, 2>> }

FileIdentifiers == { "id1" }

Destinations ==
    { <<>>, <<"d">>, <<"s.txt">>, <<"out.bin">>, <<"d", "out.bin">>,
      <<"m", "out.bin">>, <<"~">>, <<"/", "w", "d">> }

\* Variant of ParentUsable: the parent is not probed.
ParentUsable_Unchecked(f, parent) == TRUE

\* parent.exists() && parent.is_dir()
ParentUsable(f, parent) == Exists(f, parent) /\ IsDir(f, parent)

\* Variant of ResolvePath: an existing directory is used verbatim.
ResolvePath_NoJoin(f, path, name) ==
    IF PathIsEmpty(path) THEN [err |-> "", path |-> name]
    ELSE IF Exists(f, path)
    THEN IF IsDir(f, path) \/ IsFile(f, path) THEN [err |-> "", path |-> path]
         ELSE [err |-> "InvalidDestination", path |-> path]
    ELSE IF HasParent(path)
         THEN IF Exists(f, Parent(path)) /\ IsDir(f, Parent(path))
              THEN [err |-> "", path |-> path]
              ELSE [err |-> "ParentMissing", path |-> path]
         ELSE [err |-> "", path |-> path]

\* The case analysis that yields file_path, or the error it returns.
ResolvePath(f, path, name) ==
    IF PathIsEmpty(path) THEN [err |-> "", path |-> name]
    ELSE IF Exists(f, path)
    THEN IF IsDir(f, path) THEN [err |-> "", path |-> PathJoin(path, name)]
         ELSE IF IsFile(f, path) THEN [err |-> "", path |-> path]
         ELSE [err |-> "InvalidDestination", path |-> path]
    ELSE IF HasParent(path)
         THEN IF ParentUsable(f, Parent(path))
              THEN [err |-> "", path |-> path]
              ELSE [err |-> "ParentMissing", path |-> path]
         ELSE [err |-> "", path |-> path]

\* Variant of RefusesOverwrite: the flag is read the wrong way round.
RefusesOverwrite_Inverted(f, p, rep) == Exists(f, p) /\ rep

\* file_path.exists() && !replace
RefusesOverwrite(f, p, rep) == Exists(f, p) /\ ~rep

\* if let Some(parent) = file_path.parent() { if !parent.exists() {
MissingParent(f, p) == HasParent(p) /\ ~Exists(f, Parent(p))

CallDownload(id, dest, rep) ==
    /\ pc = "idle"
    /\ op' = "download"
    /\ file_identifier' = id
    /\ download_path' = dest
    /\ replace' = rep
    /\ pc' = "d_get"
    /\ UNCHANGED <<result, chunk_size, fs, fs0, uploadVars, calls, answers,
                   file_name, file_path, handle, content, fsOps>>

\* GET /download/{id}, error_for_status, the suggested name, the path
\* resolution and the exists/replace check.
DownloadGet ==
    /\ pc = "d_get"
    /\ calls' = Called("get")
    /\ \/ Fail("HttpError") /\ UNCHANGED <<file_name, file_path, answers>>
       \/ \E status \in HttpStatuses, header \in Headers :
            /\ answers' = Answered("get", status)
            /\ IF ~IsSuccess(status)
               THEN Fail("DownloadFailed") /\ UNCHANGED <<file_name, file_path>>
               ELSE LET name == FileName(header, file_identifier)
                        r == ResolvePath(fs, Tilde(download_path), name)
                    IN  /\ file_name' = name
                        /\ IF r.err # ""
                           THEN Fail(r.err) /\ UNCHANGED file_path
                           ELSE /\ file_path' = r.path
                                /\ IF RefusesOverwrite(fs, r.path, replace)
                                   THEN Fail("AlreadyExists")
                                   ELSE /\ pc' = IF MissingParent(fs, r.path)
                                                 THEN "d_mkdir" ELSE "d_create"
                                        /\ UNCHANGED result
    /\ UNCHANGED <<op, chunk_size, fs, fs0, uploadVars, download_path, replace,
                   handle, file_identifier, content, fsOps>>

\* fs::create_dir_all(parent).await?
DownloadMkdir ==
    /\ pc = "d_mkdir"
    /\ \/ Fail("IoFailure") /\ UNCHANGED <<fs, fsOps>>
       \/ LET r == CreateDirAll(fs, Parent(file_path)) IN
          IF r.ok
          THEN /\ fs' = r.fs
               /\ fsOps' = IF r.fs = fs THEN fsOps
                           ELSE Append(fsOps, "create_dir_all")
               /\ pc' = "d_create"
               /\ UNCHANGED result
          ELSE Fail("IoFailure") /\ UNCHANGED <<fs, fsOps>>
    /\ UNCHANGED <<op, chunk_size, fs0, uploadVars, calls, answers,
                   download_path, replace, file_name, file_path, handle, file_identifier,
                   content>>

\* File::create(&file_path).await?
DownloadCreate ==
    /\ pc = "d_create"
    /\ \/ Fail("IoFailure") /\ UNCHANGED <<fs, fsOps, handle>>
       \/ LET r == FileCreate(fs, file_path) IN
          IF r.ok
          THEN /\ fs' = r.fs
               /\ handle' = r.loc
               /\ fsOps' = Append(fsOps, "create")
               /\ pc' = "d_body"
               /\ UNCHANGED result
          ELSE Fail("IoFailure") /\ UNCHANGED <<fs, fsOps, handle>>
    /\ UNCHANGED <<op, chunk_size, fs0, uploadVars, calls, answers,
                   download_path, replace, file_name, file_path, file_identifier, content>>

\* let content = res.bytes().await?
DownloadBody ==
    /\ pc = "d_body"
    /\ \/ Fail("HttpError") /\ UNCHANGED content
       \/ \E body \in Bodies :
            /\ content' = body
            /\ pc' = "d_write"
            /\ UNCHANGED result
    /\ UNCHANGED <<op, chunk_size, fs, fs0, uploadVars, calls, answers,
                   download_path, replace, file_name, file_path, handle, file_identifier,
                   fsOps>>

\* file.write_all(&content).await?; Ok(())
DownloadWrite ==
    /\ pc = "d_write"
    /\ \/ Fail("IoFailure") /\ UNCHANGED <<fs, fsOps>>
       \/ /\ fs' = WriteAll(fs, handle, content)
          /\ fsOps' = Append(fsOps, "write_all")
          /\ pc' = "done"
          /\ result' = "Ok"
    /\ UNCHANGED <<op, chunk_size, fs0, uploadVars, calls, answers,
                   download_path, replace, file_name, file_path, handle, file_identifier,
                   content>>

----------------------------------------------------------------------------
Next ==
    \/ \E p \in UploadPaths : CallUpload(p)
    \/ UploadMetadata
    \/ UploadCreate
    \/ UploadJson
    \/ UploadConnect
    \/ UploadOpen
    \/ UploadRead
    \/ UploadSend
    \/ UploadRecv
    \/ UploadClose
    \/ CallDelete
    \/ DeleteSend
    \/ \E id \in FileIdentifiers, dest \in Destinations, rep \in BOOLEAN :
         CallDownload(id, dest, rep)
    \/ DownloadGet
    \/ DownloadMkdir
    \/ DownloadCreate
    \/ DownloadBody
    \/ DownloadWrite

Spec == Init /\ [][Next]_vars

\* The steps of an upload once it has been called.
UploadStep ==
    \/ UploadMetadata
    \/ UploadCreate
    \/ UploadJson
    \/ UploadConnect
    \/ UploadOpen
    \/ UploadRead
    \/ UploadSend
    \/ UploadRecv
    \/ UploadClose

\* Every awaited step of an upload completes, with a value or an error.
FairSpec == Spec /\ WF_vars(UploadStep)

TypeOK ==
    /\ pc \in {"idle", "done", "error", "u_metadata", "u_create", "u_json",
               "u_connect", "u_open", "u_read", "u_send", "u_recv", "u_close",
               "x_send", "d_get", "d_mkdir", "d_create", "d_body", "d_write"}
    /\ op \in {"none", "upload", "delete", "download"}
    /\ chunk_size \in 0..MaxChunkSize
    /\ uploaded \in 0..MaxFileSize
    /\ file_pos \in 0..MaxFileSize
    /\ (pc = "done") = (result = "Ok")
    /\ (pc = "error") = (result \notin {"pending", "Ok"})

----------------------------------------------------------------------------
\* Properties.

AckFrame == [tag |-> "SomeOk", msg |-> [type |-> "Text", payload |-> "ACK"]]

\* Cumulative length of the chunks whose response was the text frame "ACK".
RECURSIVE AckedThrough(_)
AckedThrough(k) ==
    IF k = 0 THEN 0
    ELSE AckedThrough(k - 1)
         + (IF responses[k] = AckFrame THEN Len(frames[k]) ELSE 0)

AckedBytes == AckedThrough(Len(responses))

\* The GET of a download was answered with a success status.
DownloadAnswered ==
    /\ op = "download"
    /\ pc \notin {"idle", "d_get"}
    /\ result \notin {"HttpError", "DownloadFailed"}

FsUntouched == fs = fs0 /\ fsOps = <<>>

\* C1: at most one chunk frame is sent and not yet answered, and every chunk
\* before the latest one was answered by exactly one frame, the text "ACK".
C1_OneOutstandingChunk ==
    /\ Len(frames) - Len(responses) \in {0, 1}
    /\ \A i \in 1..(Len(frames) - 1) : responses[i] = AckFrame

C1_Witness ==
    /\ Len(frames) >= 2
    /\ Len(responses) = Len(frames) - 1
    /\ pc = "u_recv"

\* C2: the observer is invoked only for acknowledged chunks: the bytes it has
\* been told of never exceed the bytes of the chunks answered with "ACK".
C2_ProgressOnlyAfterAck ==
    \A i \in 1..Len(progress) : progress[i].bytesSent <= AckedBytes

\* C3: an upload with chunk size 0 is rejected before anything is done: it
\* never returns a session, makes no create call, opens no WebSocket
\* connection and sends no close frame.
C3_ZeroChunkSizeRejected ==
    (op = "upload" /\ chunk_size = 0) =>
        /\ result # "Ok"
        /\ calls.create = 0 /\ calls.connect = 0 /\ calls.close = 0

\* C4: a successful upload of S bytes with chunk size C > 0 sends ceil(S / C)
\* frames, all but the last of length C, whose lengths sum to S.
C4_ChunkCount ==
    (op = "upload" /\ result = "Ok" /\ chunk_size > 0) =>
        /\ Len(frames) = CeilDiv(file_size, chunk_size)
        /\ \A i \in 1..(Len(frames) - 1) : Len(frames[i]) = chunk_size
        /\ SumLen(frames) = file_size

\* C5: bytesSent never decreases from one invocation to the next, never
\* exceeds totalBytes (the size taken from the metadata), and the last
\* invocation of a successful upload of a non-empty file reports totalBytes.
C5_ProgressMonotoneAndComplete ==
    /\ \A i \in 1..Len(progress) :
         /\ progress[i].totalBytes = file_size
         /\ progress[i].bytesSent <= progress[i].totalBytes
         /\ i > 1 => progress[i - 1].bytesSent <= progress[i].bytesSent
    /\ (op = "upload" /\ result = "Ok" /\ file_size > 0) =>
         /\ progress # <<>>
         /\ Last(progress).bytesSent = Last(progress).totalBytes

\* C6: a response frame other than the text "ACK" ends the upload with
\* UnexpectedMessage: it is the last response, no chunk follows the one it
\* answers, no close frame is sent and no session is returned.
C6_NonAckAborts ==
    \A i \in 1..Len(responses) :
        (responses[i].tag = "SomeOk" /\ responses[i] # AckFrame) =>
            /\ i = Len(responses)
            /\ Len(frames) = i
            /\ pc = "error"
            /\ result = "UnexpectedMessage"
            /\ returned = NoSession
            /\ calls.close = 0

C6_Witness ==
    /\ Len(responses) >= 2
    /\ Last(responses).tag = "SomeOk"
    /\ Last(responses).msg.type = "Binary"
    /\ result = "UnexpectedMessage"

\* C7: when the resolved path exists and replace is false the download fails
\* with AlreadyExists and the filesystem is as it was: nothing created,
\* opened for writing or truncated.
C7_NoOverwriteWithoutReplace ==
    (DownloadAnswered /\ Exists(fs0, file_path) /\ ~replace) =>
        /\ result = "AlreadyExists"
        /\ pc = "error"
        /\ FsUntouched

C7_Witness ==
    /\ DownloadAnswered
    /\ result = "AlreadyExists"
    /\ IsDir(fs0, download_path)
    /\ IsFile(fs0, file_path)
    /\ ~replace

\* C8: a destination that does not exist and is a bare name resolves to
\* itself; the download does not fail with ParentMissing.
C8_BareNameResolves ==
    (/\ DownloadAnswered
     /\ Len(download_path) = 1
     /\ download_path[1] \notin {"/", "~"}
     /\ ~Exists(fs0, download_path)) =>
        /\ result # "ParentMissing"
        /\ file_path = download_path

\* C9: a destination that does not exist, under a parent that does not exist
\* or is not a directory, fails with ParentMissing and the filesystem is as it
\* was.
C9_ParentMissing ==
    LET path == Tilde(download_path) IN
    (/\ DownloadAnswered
     /\ Len(path) >= 2
     /\ Parent(path) # <<"/">>
     /\ ~Exists(fs0, path)
     /\ ~IsDir(fs0, Parent(path))) =>
        /\ result = "ParentMissing"
        /\ pc = "error"
        /\ FsUntouched

C9_Witness ==
    /\ DownloadAnswered
    /\ result = "ParentMissing"
    /\ Len(download_path) = 2
    /\ ~Exists(fs0, Parent(download_path))

CreateRefused ==
    \E i \in 1..Len(answers) :
        \/ /\ answers[i].kind = "create"
           /\ ~(answers[i].value >= 200 /\ answers[i].value < 300)
        \/ /\ answers[i].kind = "json"
           /\ ~({"fileIdentifier", "deletionToken"} \subseteq DOMAIN answers[i].value)

NoRead == \A i \in 1..Len(answers) : answers[i].kind # "read"

\* C11: after a non-success create answer the upload fails with CreateFailed,
\* after a body without fileIdentifier or deletionToken with
\* InvalidServerResponse; no WebSocket connection is attempted and no chunk is
\* read or sent.
C11_CreateFailureStopsUpload ==
    (op = "upload" /\ CreateRefused) =>
        /\ pc = "error"
        /\ result = IF Last(answers).kind = "create" THEN "CreateFailed"
                    ELSE "InvalidServerResponse"
        /\ calls.connect = 0
        /\ NoRead
        /\ frames = <<>>

C11_Witness ==
    /\ op = "upload"
    /\ result = "InvalidServerResponse"
    /\ Last(answers).kind = "json"
    /\ "deletionToken" \notin DOMAIN Last(answers).value

\* C12: an upload path that is a directory or does not exist fails before any
\* network call: no create request and no WebSocket connection is made.
C12_NotAFileBeforeNetwork ==
    (op = "upload" /\ pc # "u_metadata" /\ ~IsFile(fs0, upload_path)) =>
        /\ pc = "error"
        /\ result = IF Exists(fs0, upload_path) THEN "NotAFile" ELSE "IoFailure"
        /\ calls = NoCalls
        /\ answers = <<>>

C12_Witness ==
    /\ op = "upload"
    /\ IsDir(fs0, upload_path)
    /\ result = "NotAFile"

\* C13: the close frame is sent at most once, only when end-of-file has been
\* reached and every chunk sent has been acknowledged, never by an upload that
\* fails, and always by one that returns the session; a zero-byte file is
\* closed with no chunk sent.
C13_CloseOnlyAfterEof ==
    /\ calls.close <= 1
    /\ calls.close = 1 =>
         /\ op = "upload" /\ result = "Ok"
         /\ file_pos = file_size
         /\ Len(responses) = Len(frames)
         /\ \A i \in 1..Len(responses) : responses[i] = AckFrame
         /\ file_size = 0 => frames = <<>>
    /\ (op = "upload" /\ result = "Ok") => calls.close = 1

\* C14: when the stream ends, or the peer sends a Close frame, in place of the
\* acknowledgement, the upload fails with PrematureClose.
C14_PeerCloseIsPrematureClose ==
    \A i \in 1..Len(responses) :
        (\/ responses[i].tag = "None"
         \/ responses[i].tag = "SomeOk" /\ responses[i].msg.type = "Close") =>
            /\ pc = "error"
            /\ result = "PrematureClose"

\* C15: as long as the response body has not been received in full, and when
\* receiving it fails, every file that existed keeps its content and no new
\* file exists.
C15_BodyBufferedBeforeCreate ==
    (/\ op = "download"
     /\ \/ pc \in {"d_get", "d_mkdir", "d_create", "d_body"}
        \/ result = "HttpError") =>
        /\ \A loc \in DOMAIN fs0 : fs0[loc].kind = "file" => fs[loc] = fs0[loc]
        /\ \A loc \in DOMAIN fs \ DOMAIN fs0 : fs[loc].kind # "file"
        /\ handle = NoEnt

\* C16: a failure ends the operation: once an error is returned no frame is
\* sent and no request is issued; the create, delete and download requests
\* are issued at most once; a failed upload sends no close frame and issues
\* no delete request.
C16_NoRetryNoCleanup ==
    [][ /\ pc = "error" => (frames' = frames /\ calls' = calls)
        /\ calls'.create <= 1 /\ calls'.delete <= 1 /\ calls'.get <= 1
        /\ (op' = "upload" /\ pc' = "error") =>
              (calls'.close = 0 /\ calls'.delete = 0) ]_vars

C16_Witness ==
    /\ op = "upload"
    /\ pc = "error"
    /\ Len(frames) >= 2
    /\ calls.create = 1

\* The GET of a download was answered with a non-success status.
GetRefused ==
    \E i \in 1..Len(answers) :
        /\ answers[i].kind = "get"
        /\ ~(answers[i].value >= 200 /\ answers[i].value < 300)

\* C17: a download that is answered with a non-success status, or that ends
\* with AlreadyExists, InvalidDestination, ParentMissing or DownloadFailed,
\* has created no directory.
C17_NoDirectoryBeforeChecks ==
    (/\ op = "download"
     /\ \/ GetRefused
        \/ result \in {"AlreadyExists", "InvalidDestination", "ParentMissing",
                       "DownloadFailed"}) =>
        /\ DOMAIN fs = DOMAIN fs0
        /\ \A i \in 1..Len(fsOps) : fsOps[i] # "create_dir_all"

C17_Witness ==
    /\ op = "download"
    /\ result = "InvalidDestination"
    /\ pc = "error"
    /\ fsOps = <<>>

\* C18: an upload returns the session only when the acknowledged chunks add
\* up to the file size, whatever the chunk size, and the pair returned is the
\* one of the create response.
C18_OkMeansAllAcknowledged ==
    (op = "upload" /\ result = "Ok") =>
        /\ AckedBytes = file_size
        /\ returned = create_response
        /\ \E i \in 1..Len(answers) :
             answers[i].kind = "json" /\ answers[i].value = returned

\* C19: when the destination is an existing directory, every file the download
\* creates or changes is a direct child of that directory and no directory is
\* created.
C19_WritesStayInDirectory ==
    LET dir == Tilde(download_path) IN
    (op = "download" /\ IsDir(fs0, dir)) =>
        \A loc \in DOMAIN fs :
            (loc \notin DOMAIN fs0 \/ fs[loc] # fs0[loc]) =>
                /\ fs[loc].kind = "file"
                /\ loc # <<>>
                /\ Front(loc) = Locate(fs0, dir)

NonEmptyReads ==
    Cardinality({ i \in 1..Len(answers) :
                    answers[i].kind = "read" /\ answers[i].value > 0 })

\* C20: with a chunk size above 0 and every awaited step completing, an
\* upload ends, with the session or with an error, and it never has sent
\* more frames than it has made non-empty reads.
C20_UploadTerminates ==
    /\ [](Len(frames) <= NonEmptyReads)
    /\ (op = "upload" /\ chunk_size > 0) ~> (pc \in {"done", "error"})

C20_Witness ==
    /\ op = "upload"
    /\ chunk_size > 0
    /\ pc = "done"
    /\ Len(frames) >= 2
    /\ Len(frames) = NonEmptyReads

====
